---- MODULE Spec2Model ----
(***************************************************************************)
(* A model of mnemo, a spaced-repetition flashcard reviewer.               *)
(*                                                                         *)
(*   card.rs   Status (id, timestamp, factor, ticks), Status::update,      *)
(*             Status::from_str                                            *)
(*   deck.rs   Deck::get_due, Deck::get_new, Deck::play_card, save_log     *)
(*   suite.rs  Suite::get_old_or_new (the merge), Suite::play              *)
(*                                                                         *)
(* The specifications share the variables:                                 *)
(*   SpecCard       one Status under update / reload / clock               *)
(*   SpecMerge      the loop of Suite::get_old_or_new, a step an iteration *)
(*   SpecMergeFair  the same loop, unshuffled, run without being suspended *)
(*   Spec           a session of Suite::play over the decks                *)
(*                                                                         *)
(* Numbers.  factor is an f64.  It is modelled in fixed point, FUnit units *)
(* to 1.0, on a floating grid (see OnGrid): a value in [2^k, 2^(k+1)) is a *)
(* multiple of 2^k units, as a float with a short mantissa would be, so    *)
(* that doubling and halving are exact as they are for an f64.             *)
(* Timestamps are seconds.  The local time zone has one day of 25 hours,    *)
(* the day the clocks go back (LongDay); every other day has 24.           *)
(***************************************************************************)
EXTENDS Integers, Sequences, FiniteSets, TLC

VARIABLES
    \* ---- SpecCard: one Status value and the last call made on it
    st,         \* the Status (card.rs:18-23)
    pre,        \* the Status before the last call
    last,       \* the last call: [op, correct, randomize, ret]
    hist,       \* the update calls made so far: [correct, randomize, ret]
    origin,     \* "new" (Status::new) or "log" (Status::from_str)
    \* ---- the clock, shared
    now,        \* Local::now(), seconds
    \* ---- SpecMerge: Suite::get_old_or_new
    mpc,        \* where the call is: "idle", "shuffle", "branch", "while",
                \* "for", "done"
    mn,         \* self.decks.len()
    minput,     \* the lists get_fn returned, one per deck (line 102)
    mshuf,      \* the lists after the shuffle (lines 104-108)
    mdecks,     \* the local `decks`, reversed and popped (lines 117-127)
    mret,       \* the local `ret`: pairs <<deck_index, card>>
    mmax,       \* max: <<>> is None, <<m>> is Some(m)
    mrandomize, \* randomize
    mi,         \* the for loop's position: deck_index + 1
    \* ---- Spec: Suite::play
    decks,      \* self.decks: [cards, ids, status, played, wrong, log]
    spc,        \* where play is: "idle", "start", "merge_old", "old",
                \* "merge_new", "new", "finished", "cancelled"
    queue,      \* the local `old` or `new`: pairs <<deck_index, id>>
    qpos,       \* the for loop's position in queue; 0 at the while test
    done,       \* the local `done` of the play! macro
    max_new,    \* play's parameters
    max_old,
    prandomize, \* play's randomize
    report,     \* what on_exit printed: <<>> before, <<tallies>> after
    \* ---- history of the session
    streak      \* for every <<deck_index + 1, id>>: the number of correct
                \* answers in a row the card was last given in this session

cardVars == <<st, pre, last, hist, origin>>
mergeVars == <<mpc, mn, minput, mshuf, mdecks, mret, mmax, mrandomize, mi>>
sessVars == <<decks, spc, queue, qpos, done, max_new, max_old, prandomize,
              report, streak>>
vars == <<st, pre, last, hist, origin, now,
          mpc, mn, minput, mshuf, mdecks, mret, mmax, mrandomize, mi,
          decks, spc, queue, qpos, done, max_new, max_old, prandomize,
          report, streak>>

-----------------------------------------------------------------------------
(* Bounds of the model *)

\* update calls per behaviour of SpecCard
MaxCalls == 5
\* update is only called on a factor of at most MaxFactor (in 1.0 units)
MaxFactor == 64
\* update calls with randomize = true per behaviour of SpecCard
MaxRandom == 1
\* the clock stops advancing after day MaxDay
MaxDay == 2
\* decks of a suite
MaxDecks == 3
\* ids over all the lists handed to get_old_or_new
MaxTotal == 5
\* the largest max handed to get_old_or_new
MaxCap == 3
\* the largest max_new of a session
MaxNew == 1

-----------------------------------------------------------------------------
(* Constants of the program *)

INIT_TICKS == 2
DaySecs == 86400
\* fixed-point unit of the f64 factor: FUnit stands for 1.0
FUnit == 128 * 100
\* one hundredth, the resolution of the log's "{:.2}"
Cent == FUnit \div 100
MAX_DAYS == 60 * FUnit
HourSecs == 60 * 60

Max(a, b) == IF a >= b THEN a ELSE b
Min(a, b) == IF a <= b THEN a ELSE b

-----------------------------------------------------------------------------
(* f64 arithmetic on the grid *)

\* the spacing of representable values at the magnitude of v
RECURSIVE GridOf(_)
GridOf(v) == IF v < 2 * FUnit THEN 1 ELSE 2 * GridOf(v \div 2)

OnGrid(v) == v % GridOf(v) = 0

\* round towards zero to a representable value
Snap(v) == v - (v % GridOf(v))

\* self.factor *= 2.0
Double(f) == 2 * f
\* self.factor /= 2.0 (exact on the grid while the result is >= 1.0; below
\* 1.0 the result is only compared with 1.0)
Halve(f) == f \div 2

\* (86400.0 * self.factor) as i64: 86400 * f / FUnit, written so that the
\* product stays within 32 bits
SecsOf(f) == ((DaySecs \div 128) * f) \div (FUnit \div 128)

\* rand::random::<f64>() in [0, 1): 0.2 * r is one of 0, 3/16
JitSteps == {0, 3}

\* self.factor *= 1.0 + 0.2 * r
Jitter(f, j) == Snap(f + (f * j) \div 16)

-----------------------------------------------------------------------------
(* chrono *)

\* Local: the system's time zone.  Days are numbered from the epoch; on day
\* LongDay the clocks go back an hour (at 02:00 or later), so that day has
\* 25 hours
LongDay == 2

\* the timestamp of local midnight at the start of day d
DayStart(d) == d * DaySecs + (IF d > LongDay THEN HourSecs ELSE 0)

\* Local.timestamp(ts, 0).date()
DateOf(ts) ==
    IF ts < DayStart(LongDay + 1)
    THEN Min(ts \div DaySecs, LongDay)
    ELSE (ts - HourSecs) \div DaySecs

\* now.with_hour(0): the hour is set to 0, minutes and seconds are kept
WithHour0(t) == DayStart(DateOf(t)) + ((t - DayStart(DateOf(t))) % HourSecs)

-----------------------------------------------------------------------------
(* card.rs: Status *)

\* lines 35-42, buggy variant: a fresh Status has a single tick
StatusNewOneTick(id, t) == [id |-> id, timestamp |-> t, factor |-> 0, ticks |-> 1]

StatusNew(id, t) == [id |-> id, timestamp |-> t, factor |-> 0, ticks |-> INIT_TICKS]

due_date(s) == DateOf(s.timestamp)

is_new(s) == s.factor = 0

is_due(s, t) == s.ticks > 0 /\ due_date(s) <= DateOf(t)

\* ticks is a usize; the model gives it UsizeBits bits
UsizeBits == 16
UsizeMax == 2^UsizeBits - 1

\* self.ticks -= 1 in a build without overflow checks (the release profile):
\* the subtraction wraps
WrappingDec(n) == (n + UsizeMax) % (UsizeMax + 1)

\* line 65 is reached with ticks = 0: `attempt to subtract with overflow`,
\* a panic in a build with overflow checks (the dev profile)
Overflows(s, correct) == ~(~correct /\ s.factor = 0) /\ s.ticks = 0

\* lines 62-66, buggy variant: a miss on a new card is only decremented
TicksAfterNoReset(s, correct) == s.ticks - 1

\* lines 62-66: the tick count after an answer, where line 65 does not panic
TicksAfter(s, correct) ==
    IF ~correct /\ is_new(s) THEN INIT_TICKS ELSE WrappingDec(s.ticks)

\* lines 69-74, buggy variant: the answer's sense is swapped
FactorAfterSwapped(f, correct) ==
    Max(IF correct THEN Halve(f) ELSE Double(f), FUnit)

\* lines 69-74, buggy variant: the floor is 2.0
FactorAfterFloor2(f, correct) ==
    Max(IF correct THEN Double(f) ELSE Halve(f), 2 * FUnit)

\* lines 69-74, buggy variant: no floor
FactorAfterNoClamp(f, correct) ==
    IF correct THEN Double(f) ELSE Halve(f)

\* lines 69-74: the factor of a completed cycle, before the jitter
FactorAfter(f, correct) ==
    Max(IF correct THEN Double(f) ELSE Halve(f), FUnit)

\* lines 79-83: the due timestamp of a completed cycle with new factor f
TimestampAfter(s, f, t) ==
    (IF due_date(s) < DateOf(t) THEN WithHour0(t) ELSE s.timestamp) + SecsOf(f)

\* lines 68-84, buggy variant: the overdue timestamp is snapped to hour 0 of
\* today in every call, not only where ticks reaches 0
updateSnapsAlways(s, correct, randomize, j, t) ==
    LET ticks == TicksAfter(s, correct)
    IN  IF ticks = 0
        THEN LET f1 == FactorAfter(s.factor, correct)
                 f2 == IF randomize THEN Jitter(f1, j) ELSE f1
             IN  [id |-> s.id, timestamp |-> TimestampAfter(s, f2, t),
                  factor |-> f2, ticks |-> 0]
        ELSE [s EXCEPT !.ticks = ticks,
                       !.timestamp = IF due_date(s) < DateOf(t) THEN WithHour0(t) ELSE @]

\* Status::update(&mut self, correct, randomize), at time t, with the random
\* draw j; the new Status (its ticks field is the value returned)
update(s, correct, randomize, j, t) ==
    LET ticks == TicksAfter(s, correct)
    IN  IF ticks = 0
        THEN LET f1 == FactorAfter(s.factor, correct)
                 f2 == IF randomize THEN Jitter(f1, j) ELSE f1
             IN  [id |-> s.id, timestamp |-> TimestampAfter(s, f2, t),
                  factor |-> f2, ticks |-> 0]
        ELSE [s EXCEPT !.ticks = ticks]

\* lines 164-170, buggy variant: every Status read has INIT_TICKS ticks
StatusFromStrTwoTicks(id, ts, cents) ==
    [id |-> id, timestamp |-> ts, factor |-> cents * Cent, ticks |-> INIT_TICKS]

\* Status::from_str on the fields of a log line; the factor in hundredths
StatusFromStr(id, ts, cents) ==
    [id |-> id, timestamp |-> ts, factor |-> cents * Cent,
     ticks |-> IF cents # 0 THEN 1 ELSE INIT_TICKS]

\* format!("{:.2}", factor), in hundredths.  A value half way between two
\* hundredths stands for an f64 near x.xx5, which is printed either way.
FormatFactor(f, up) ==
    LET q == f \div Cent
        r == f % Cent
    IN  IF 2 * r < Cent THEN q
        ELSE IF 2 * r > Cent THEN q + 1
        ELSE IF up THEN q + 1 ELSE q

NoCall == [op |-> "none", correct |-> FALSE, randomize |-> FALSE, ret |-> 0]

\* no single Status is under study
CardIdle ==
    /\ st = StatusNew(0, 0)
    /\ pre = st
    /\ last = NoCall
    /\ hist = <<>>
    /\ origin = "new"

\* no session is running
SessIdle ==
    /\ decks = <<>>
    /\ spc = "idle"
    /\ queue = <<>>
    /\ qpos = 0
    /\ done = FALSE
    /\ max_new = 0
    /\ max_old = <<>>
    /\ prandomize = FALSE
    /\ report = <<>>
    /\ streak = <<>>

-----------------------------------------------------------------------------
(* suite.rs: Suite::get_old_or_new, the merge of the decks' lists *)

None == <<>>
Some(m) == <<m>>

\* no call of get_old_or_new is in progress
MergeIdle ==
    /\ mpc = "idle"
    /\ mn = 0
    /\ minput = <<>>
    /\ mshuf = <<>>
    /\ mdecks = <<>>
    /\ mret = <<>>
    /\ mmax = None
    /\ mrandomize = FALSE
    /\ mi = 0

\* line 118, buggy variant: the lists are not reversed
ReverseNot(q) == q

\* deck.reverse()
Reverse(q) == [i \in 1..Len(q) |-> q[Len(q) + 1 - i]]

\* deck.shuffle(&mut thread_rng()): the orders a shuffle can leave
RECURSIVE Shuffles(_)
Shuffles(q) ==
    IF q = <<>> THEN {<<>>}
    ELSE UNION {{<<q[i]>> \o r :
                    r \in Shuffles(SubSeq(q, 1, i - 1) \o SubSeq(q, i + 1, Len(q)))} :
                i \in 1..Len(q)}

\* for deck in decks.iter_mut() { deck.shuffle(..) }: the first n lists shuffled
RECURSIVE ShuffleAll(_, _)
ShuffleAll(qs, n) ==
    IF n = 0 THEN {<<>>}
    ELSE {Append(r, q) : r \in ShuffleAll(qs, n - 1), q \in Shuffles(qs[n])}

\* lines 111-115, buggy variant: max is ignored
TakeSingleNoCap(q, max) == [i \in 1..Len(q) |-> <<0, q[i]>>]

\* lines 111-115: decks[0].iter().take(max.unwrap_or(len)).map(|&c| (0, c))
TakeSingle(q, max) ==
    LET k == IF max = None THEN Len(q) ELSE Min(max[1], Len(q))
    IN  [i \in 1..k |-> <<0, q[i]>>]

\* cards.pop(): the last element, when there is one
PopCard(q) == q[Len(q)]
PopRest(q) == SubSeq(q, 1, Len(q) - 1)

\* lines 102-108, randomize = false: the lists are taken as get_fn gave them
MergeNoShuffle ==
    /\ mpc = "shuffle"
    /\ ~mrandomize
    /\ mshuf' = minput
    /\ mdecks' = minput
    /\ mpc' = "branch"
    /\ UNCHANGED <<mn, minput, mret, mmax, mrandomize, mi>>
    /\ UNCHANGED <<cardVars, sessVars, now>>

\* lines 104-108, randomize = true: every list is shuffled
MergeShuffle ==
    /\ mpc = "shuffle"
    /\ mrandomize
    /\ mshuf' \in ShuffleAll(minput, mn)
    /\ mdecks' = mshuf'
    /\ mpc' = "branch"
    /\ UNCHANGED <<mn, minput, mret, mmax, mrandomize, mi>>
    /\ UNCHANGED <<cardVars, sessVars, now>>

\* lines 110-116: exactly one deck
MergeSingle ==
    /\ mpc = "branch"
    /\ mn = 1
    /\ mret' = TakeSingle(mdecks[1], mmax)
    /\ mpc' = "done"
    /\ UNCHANGED <<mn, minput, mshuf, mdecks, mmax, mrandomize, mi>>
    /\ UNCHANGED <<cardVars, sessVars, now>>

\* lines 116-122: otherwise every list is reversed, ret = vec![]
MergeReverse ==
    /\ mpc = "branch"
    /\ mn # 1
    /\ mdecks' = [d \in 1..mn |-> Reverse(mdecks[d])]
    /\ mret' = <<>>
    /\ mpc' = "while"
    /\ UNCHANGED <<mn, minput, mshuf, mmax, mrandomize, mi>>
    /\ UNCHANGED <<cardVars, sessVars, now>>

\* line 123: while decks.iter().any(|deck| !deck.is_empty()); the for loop
\* starts at deck_index 0, or the function returns ret
MergeWhile ==
    /\ mpc = "while"
    /\ IF \E d \in 1..mn : mdecks[d] # <<>>
       THEN mpc' = "for" /\ mi' = 1
       ELSE mpc' = "done" /\ mi' = mi
    /\ UNCHANGED <<mn, minput, mshuf, mdecks, mret, mmax, mrandomize>>
    /\ UNCHANGED <<cardVars, sessVars, now>>

\* lines 124-133, buggy variant: the loop stays at a deck until it is empty
MergeForDrain ==
    /\ mpc = "for"
    /\ mi <= mn
    /\ IF mdecks[mi] # <<>>
       THEN /\ mret' = Append(mret, <<mi - 1, PopCard(mdecks[mi])>>)
            /\ mdecks' = [mdecks EXCEPT ![mi] = PopRest(mdecks[mi])]
       ELSE UNCHANGED <<mret, mdecks>>
    /\ IF mmax # None /\ Len(mret') >= mmax[1]
       THEN mpc' = "while" /\ mi' = mi
       ELSE IF mdecks'[mi] # <<>>
            THEN mpc' = "for" /\ mi' = mi
            ELSE IF mi = mn
                 THEN mpc' = "while" /\ mi' = mi
                 ELSE mpc' = "for" /\ mi' = mi + 1
    /\ UNCHANGED <<mn, minput, mshuf, mmax, mrandomize>>
    /\ UNCHANGED <<cardVars, sessVars, now>>

\* lines 124-133: one iteration of the for loop, at deck_index mi - 1: the
\* deck's next card is popped and pushed; when max is reached the break
\* leaves the for loop (and only it)
MergeFor ==
    /\ mpc = "for"
    /\ mi <= mn
    /\ IF mdecks[mi] # <<>>
       THEN /\ mret' = Append(mret, <<mi - 1, PopCard(mdecks[mi])>>)
            /\ mdecks' = [mdecks EXCEPT ![mi] = PopRest(mdecks[mi])]
       ELSE UNCHANGED <<mret, mdecks>>
    /\ IF mmax # None /\ Len(mret') >= mmax[1]
       THEN mpc' = "while" /\ mi' = mi
       ELSE IF mi = mn
            THEN mpc' = "while" /\ mi' = mi
            ELSE mpc' = "for" /\ mi' = mi + 1
    /\ UNCHANGED <<mn, minput, mshuf, mmax, mrandomize>>
    /\ UNCHANGED <<cardVars, sessVars, now>>

\* lists of ids as Deck::get_due and Deck::get_new return them: distinct ids,
\* here runs in ascending or descending order
Run(n) == [i \in 1..n |-> i]
IdLists == {Run(n) : n \in 0..MaxTotal} \cup {Reverse(Run(n)) : n \in 0..MaxTotal}

RECURSIVE SumLen(_, _)
SumLen(qs, n) == IF n = 0 THEN 0 ELSE Len(qs[n]) + SumLen(qs, n - 1)

InitMerge ==
    /\ mpc = "shuffle"
    /\ mn \in 1..MaxDecks
    /\ minput \in {qs \in [1..mn -> IdLists] : SumLen(qs, mn) <= MaxTotal}
    /\ mshuf = <<>>
    /\ mdecks = <<>>
    /\ mret = <<>>
    /\ mmax \in {None} \cup {Some(m) : m \in 0..MaxCap}
    /\ mrandomize \in BOOLEAN
    /\ mi = 0
    /\ now = 0
    /\ CardIdle
    /\ SessIdle

NextMerge ==
    \/ MergeNoShuffle
    \/ MergeShuffle
    \/ MergeSingle
    \/ MergeReverse
    \/ MergeWhile
    \/ MergeFor

SpecMerge == InitMerge /\ [][NextMerge]_vars

\* the calls with randomize = false
InitMergeFair == InitMerge /\ ~mrandomize

NextMergeFair ==
    \/ MergeNoShuffle
    \/ MergeSingle
    \/ MergeReverse
    \/ MergeWhile
    \/ MergeFor

\* the call runs on one thread that is never suspended for good: whenever it
\* has a next step it takes one
SpecMergeFair ==
    InitMergeFair /\ [][NextMergeFair]_vars /\ WF_vars(NextMergeFair)

-----------------------------------------------------------------------------
(* SpecCard: one Status *)

\* factors found in a log the program wrote, in hundredths
LogCents == {0, 100, 319, 6400}
LogTimestamps == {DaySecs \div 2, DaySecs + 7}
NowValues == {DaySecs + 10 * HourSecs + 1815}

InitCard ==
    /\ now \in NowValues
    /\ \/ /\ origin = "new"
          /\ st = StatusNew(1, now)
       \/ /\ origin = "log"
          /\ st \in {StatusFromStr(1, ts, c) : ts \in LogTimestamps, c \in LogCents}
       \/ /\ origin = "literal"
          /\ st = [StatusNew(1, now) EXCEPT !.ticks = 0]
    /\ pre = st
    /\ last = NoCall
    /\ hist = <<>>
    /\ MergeIdle
    /\ SessIdle

\* a Status is followed until a call panics or leaves more ticks than a
\* Status is ever made with (a call with no tick left that wrapped)
Followed == last.op # "panic" /\ st.ticks <= INIT_TICKS

\* s.update(correct, randomize), as the session and the unit test call it
Update(correct, randomize, j) ==
    /\ st.ticks >= 1
    /\ Followed
    /\ st.factor <= MaxFactor * FUnit
    /\ Len(hist) < MaxCalls
    /\ randomize => Cardinality({i \in 1..Len(hist) : hist[i].randomize}) < MaxRandom
    /\ pre' = st
    /\ st' = update(st, correct, randomize, j, now)
    /\ last' = [op |-> "update", correct |-> correct, randomize |-> randomize,
                ret |-> st'.ticks]
    /\ hist' = Append(hist, [correct |-> correct, randomize |-> randomize,
                              ret |-> st'.ticks])
    /\ UNCHANGED <<origin, now>>
    /\ UNCHANGED <<mergeVars, sessVars>>

\* s.update(correct, randomize) on a Status with no tick left, which the
\* comment at line 60 forbids; checked: the build checks integer overflow
UpdateAtZero(correct, randomize, j, checked) ==
    /\ st.ticks = 0
    /\ Followed
    /\ Len(hist) < MaxCalls
    /\ pre' = st
    /\ IF Overflows(st, correct) /\ checked
       THEN /\ st' = st
            /\ last' = [op |-> "panic", correct |-> correct,
                        randomize |-> randomize, ret |-> 0]
            /\ hist' = hist
       ELSE /\ st' = update(st, correct, randomize, j, now)
            /\ last' = [op |-> "update", correct |-> correct,
                        randomize |-> randomize, ret |-> st'.ticks]
            /\ hist' = Append(hist, [correct |-> correct, randomize |-> randomize,
                                      ret |-> st'.ticks])
    /\ UNCHANGED <<origin, now>>
    /\ UNCHANGED <<mergeVars, sessVars>>

\* the Status is written by save_log and read back by read_from_file: a new
\* turn (the unit test sets s.ticks = 1 to the same effect)
Reload(up) ==
    /\ last.op = "update"
    /\ Followed
    /\ pre' = st
    /\ st' = StatusFromStr(st.id, st.timestamp, FormatFactor(st.factor, up))
    /\ last' = [NoCall EXCEPT !.op = "reload"]
    /\ UNCHANGED <<hist, origin, now>>
    /\ UNCHANGED <<mergeVars, sessVars>>

\* time passes: the next day begins
NextDay ==
    /\ DateOf(now) < MaxDay
    /\ now' = now + DaySecs
    /\ UNCHANGED cardVars
    /\ UNCHANGED <<mergeVars, sessVars>>

NextCard ==
    \/ \E correct \in BOOLEAN : Update(correct, FALSE, 0)
    \/ \E correct \in BOOLEAN, j \in JitSteps : Update(correct, TRUE, j)
    \/ \E correct \in BOOLEAN, checked \in BOOLEAN : UpdateAtZero(correct, FALSE, 0, checked)
    \/ \E up \in BOOLEAN : Reload(up)
    \/ NextDay

SpecCard == InitCard /\ [][NextCard]_vars

\* the model's arithmetic is sound: every factor is representable
FactorOnGrid == OnGrid(st.factor)

-----------------------------------------------------------------------------
(* deck.rs: Deck *)

\* the ids of a set in ascending order
RECURSIVE SortedSeq(_)
SortedSeq(S) ==
    IF S = {} THEN <<>>
    ELSE LET m == CHOOSE x \in S : \A y \in S : x <= y
         IN  <<m>> \o SortedSeq(S \ {m})

\* a stable insertion: x goes after the elements whose key is not above its own
RECURSIVE InsertByKey(_, _, _)
InsertByKey(q, x, key) ==
    IF q = <<>> THEN <<x>>
    ELSE IF key[Head(q)] <= key[x] THEN <<Head(q)>> \o InsertByKey(Tail(q), x, key)
    ELSE <<x>> \o q

\* Vec::sort_by_key: a stable sort
RECURSIVE SortByKey(_, _)
SortByKey(q, key) ==
    IF q = <<>> THEN <<>>
    ELSE InsertByKey(SortByKey(SubSeq(q, 1, Len(q) - 1), key), q[Len(q)], key)

\* self.cards.keys(): a HashMap's keys come in any order
KeyOrders(deck) == Shuffles(SortedSeq(deck.cards))

\* line 248, buggy variant: the graduation ceiling is not tested
DuePredNoCeiling(deck, id, t) ==
    /\ id \in DOMAIN deck.status
    /\ is_due(deck.status[id], t) /\ ~is_new(deck.status[id])

\* lines 246-249: the filter of get_due
DuePred(deck, id, t) ==
    /\ id \in DOMAIN deck.status
    /\ is_due(deck.status[id], t) /\ ~is_new(deck.status[id])
    /\ deck.status[id].factor < MAX_DAYS

\* line 252, buggy variant: sorted by id, as get_new sorts
SortDueById(deck, q) == SortByKey(q, [id \in deck.cards |-> id])

\* line 252: old.sort_by_key(|id| self.status[id].timestamp)
SortDue(deck, q) ==
    SortByKey(q, [id \in DOMAIN deck.status |-> deck.status[id].timestamp])

\* Deck::get_due at time t, the keys of self.cards coming in the order keys
get_due(deck, keys, t) ==
    SortDue(deck, SelectSeq(keys, LAMBDA id : DuePred(deck, id, t)))

\* lines 277-282, buggy variant: a card without a status is left out, as
\* get_due leaves it out
NewPredNoMissing(deck, id) ==
    id \in DOMAIN deck.status /\ is_new(deck.status[id])

\* lines 277-282: the filter of get_new
NewPred(deck, id) ==
    id \in DOMAIN deck.status => is_new(deck.status[id])

\* Deck::get_new, the keys of self.cards coming in the order keys
get_new(deck, keys) ==
    SortByKey(SelectSeq(keys, LAMBDA id : NewPred(deck, id)), [id \in deck.cards |-> id])

\* Deck::save_log: a line <<id, timestamp, factor in hundredths>> for every
\* id of self.ids that has a status
save_log(deck, up) ==
    LET line(id) == <<deck.status[id].id, deck.status[id].timestamp,
                      FormatFactor(deck.status[id].factor, up)>>
        kept == SelectSeq(deck.ids, LAMBDA id : id \in DOMAIN deck.status)
    IN  [i \in 1..Len(kept) |-> line(kept[i])]

\* Deck::read_from_file, lines 71-83: the status map of a log
ReadLog(log) ==
    [id \in {log[i][1] : i \in 1..Len(log)} |->
        LET i == CHOOSE k \in 1..Len(log) :
                    log[k][1] = id /\ \A m \in (k + 1)..Len(log) : log[m][1] # id
        IN  StatusFromStr(log[i][1], log[i][2], log[i][3])]

\* lines 208-237, buggy variant: the tallies and the log are written after
\* every answer, whatever update returned
play_cardEveryAnswer(deck, id, correct, j, up, t) ==
    LET s0 == IF id \in DOMAIN deck.status THEN deck.status[id] ELSE StatusNew(id, t)
        s1 == update(s0, correct, TRUE, j, t)
        d1 == [deck EXCEPT !.status =
                  [k \in DOMAIN deck.status \cup {id} |->
                      IF k = id THEN s1 ELSE deck.status[k]]]
    IN  [d1 EXCEPT !.played = @ \cup {id},
                   !.wrong = IF correct THEN @ ELSE @ \cup {id},
                   !.log = save_log(d1, up)]

\* Deck::play_card from the answer on (lines 208-237): the deck after the
\* card id was answered at time t
play_card(deck, id, correct, j, up, t) ==
    LET s0 == IF id \in DOMAIN deck.status THEN deck.status[id] ELSE StatusNew(id, t)
        s1 == update(s0, correct, TRUE, j, t)
        d1 == [deck EXCEPT !.status =
                  [k \in DOMAIN deck.status \cup {id} |->
                      IF k = id THEN s1 ELSE deck.status[k]]]
    IN  IF s1.ticks = 0
        THEN [d1 EXCEPT !.played = @ \cup {id},
                        !.wrong = IF correct THEN @ ELSE @ \cup {id},
                        !.log = save_log(d1, up)]
        ELSE d1

-----------------------------------------------------------------------------
(* suite.rs: Suite::play *)

\* the suites played: the ids of the lines of each deck's card file; the
\* line with id 0 is the header
Suites == { << {0, 1, 2} >>, << {1}, {0, 1} >> }

\* lines 104-115: the header is taken out of ids and of cards
CardsOf(file) == file \ {0}

\* what a line of a log the program wrote can hold for a card:
\* <<timestamp, factor in hundredths>>
LogEntries == {
    <<DaySecs \div 2, 0>>,
    <<DaySecs \div 2, 100>>,
    <<DaySecs + 7, 3200>>,
    <<DaySecs \div 2, 6000>>,
    <<5 * DaySecs, 200>> }

\* the logs of a deck with the given cards: some of the cards have a line
LogsOf(cards) ==
    UNION {
        {[i \in 1..Len(SortedSeq(K)) |->
             <<SortedSeq(K)[i], e[SortedSeq(K)[i]][1], e[SortedSeq(K)[i]][2]>>] :
            e \in [K -> LogEntries]} :
        K \in SUBSET cards}

\* the id of a card that was deleted from the card file after it was played:
\* its line is still in the log, and read_from_file puts it in the status map
GoneId == 3

\* the logs found beside a card file: as the program wrote them for the
\* file's cards, or with the line of the deleted card at the end
LogsFound(cards) ==
    LogsOf(cards) \cup {Append(l, <<GoneId, DaySecs \div 2, 100>>) : l \in LogsOf(cards)}

\* Deck::read_from_file
DeckOf(file, log) ==
    [cards |-> CardsOf(file), ids |-> SortedSeq(CardsOf(file)),
     status |-> ReadLog(log), played |-> {}, wrong |-> {}, log |-> log]

\* the cards of the session: <<deck_index + 1, id>>
CardRefs(ds) == UNION {{<<d, id>> : id \in ds[d].cards} : d \in 1..Len(ds)}

\* on_exit (lines 29-58): what is printed for every deck
on_exit(ds) ==
    [d \in 1..Len(ds) |->
        [played |-> Cardinality(ds[d].played),
         right |-> Cardinality(ds[d].played) - Cardinality(ds[d].wrong),
         wrong |-> ds[d].wrong]]

Init ==
    /\ now \in NowValues
    /\ \E suite \in Suites :
          decks \in {q \in [1..Len(suite) ->
                            UNION {{DeckOf(suite[d], l) : l \in LogsFound(CardsOf(suite[d]))} :
                                   d \in 1..Len(suite)}] :
                      \A d \in 1..Len(suite) : q[d].cards = CardsOf(suite[d])}
    /\ spc = "start"
    /\ queue = <<>>
    /\ qpos = 0
    /\ done = FALSE
    /\ max_new \in 0..MaxNew
    /\ max_old \in {None, Some(1)}
    /\ prandomize \in BOOLEAN
    /\ report = None
    /\ streak = [c \in CardRefs(decks) |-> 0]
    /\ MergeIdle
    /\ CardIdle

\* the lists get_fn gives, one per deck, for every order of the HashMaps' keys
DueLists ==
    {q \in [1..Len(decks) ->
              UNION {{get_due(decks[d], k, now) : k \in KeyOrders(decks[d])} :
                     d \in 1..Len(decks)}] :
        \A d \in 1..Len(decks) :
            q[d] \in {get_due(decks[d], k, now) : k \in KeyOrders(decks[d])}}

NewLists ==
    {q \in [1..Len(decks) ->
              UNION {{get_new(decks[d], k) : k \in KeyOrders(decks[d])} :
                     d \in 1..Len(decks)}] :
        \A d \in 1..Len(decks) :
            q[d] \in {get_new(decks[d], k) : k \in KeyOrders(decks[d])}}

\* a call of get_old_or_new(get_fn, max, randomize) begins
CallMerge(lists, max) ==
    /\ mpc' = "shuffle"
    /\ mn' = Len(decks)
    /\ minput' = lists
    /\ mshuf' = <<>>
    /\ mdecks' = <<>>
    /\ mret' = <<>>
    /\ mmax' = max
    /\ mrandomize' = prandomize
    /\ mi' = 0

\* the call has returned: its locals are gone
ReturnMerge ==
    /\ mpc' = "idle"
    /\ mn' = 0
    /\ minput' = <<>>
    /\ mshuf' = <<>>
    /\ mdecks' = <<>>
    /\ mret' = <<>>
    /\ mmax' = None
    /\ mrandomize' = FALSE
    /\ mi' = 0

\* line 84: let old = self.get_old(max_old, randomize)
StartOld ==
    /\ spc = "start"
    /\ \E lists \in DueLists : CallMerge(lists, max_old)
    /\ spc' = "merge_old"
    /\ UNCHANGED <<decks, queue, qpos, done, max_new, max_old, prandomize, report, streak>>
    /\ UNCHANGED <<cardVars, now>>

\* lines 84-85 and 87-88: get_old / get_new has returned and play! begins:
\* let mut done = false
BeginSweeps ==
    /\ spc \in {"merge_old", "merge_new"}
    /\ mpc = "done"
    /\ queue' = mret
    /\ qpos' = 0
    /\ done' = FALSE
    /\ spc' = IF spc = "merge_old" THEN "old" ELSE "new"
    /\ ReturnMerge
    /\ UNCHANGED <<decks, max_new, max_old, prandomize, report, streak>>
    /\ UNCHANGED <<cardVars, now>>

\* lines 63-65: while !done { done = true; for ... }: another sweep begins
SweepAgain ==
    /\ spc \in {"old", "new"}
    /\ qpos = 0
    /\ ~done
    /\ done' = TRUE
    /\ qpos' = IF queue = <<>> THEN 0 ELSE 1
    /\ UNCHANGED <<decks, spc, queue, max_new, max_old, prandomize, report, streak>>
    /\ UNCHANGED <<cardVars, mergeVars, now>>

\* line 87: the old queue's loop has ended: let new = self.get_new(Some(max_new), ..)
OldDone ==
    /\ spc = "old"
    /\ qpos = 0
    /\ done
    /\ \E lists \in NewLists : CallMerge(lists, Some(max_new))
    /\ spc' = "merge_new"
    /\ UNCHANGED <<decks, queue, qpos, done, max_new, max_old, prandomize, report, streak>>
    /\ UNCHANGED <<cardVars, now>>

\* line 90: the new queue's loop has ended: on_exit, and play returns
NewDone ==
    /\ spc = "new"
    /\ qpos = 0
    /\ done
    /\ spc' = "finished"
    /\ report' = Some(on_exit(decks))
    /\ UNCHANGED <<decks, queue, qpos, done, max_new, max_old, prandomize, streak>>
    /\ UNCHANGED <<cardVars, mergeVars, now>>

\* lines 67-72, buggy variant: only the due date is tested
StillDueByDate(deck, id, t) ==
    id \in DOMAIN deck.status => due_date(deck.status[id]) <= DateOf(t)

\* lines 67-72: status.get(&id).map(|status| status.is_due()).unwrap_or(true)
StillDue(deck, id, t) ==
    id \in DOMAIN deck.status => is_due(deck.status[id], t)

NextPos == IF qpos = Len(queue) THEN 0 ELSE qpos + 1

\* lines 65-72: the card at qpos is not due: nothing happens
SkipCard ==
    /\ spc \in {"old", "new"}
    /\ qpos >= 1
    /\ ~StillDue(decks[queue[qpos][1] + 1], queue[qpos][2], now)
    /\ qpos' = NextPos
    /\ UNCHANGED <<decks, spc, queue, done, max_new, max_old, prandomize, report, streak>>
    /\ UNCHANGED <<cardVars, mergeVars, now>>

\* lines 73-74, buggy variant: done is not set back to false
AnswerCardKeepDone(correct, j, up) ==
    /\ spc \in {"old", "new"}
    /\ qpos >= 1
    /\ StillDue(decks[queue[qpos][1] + 1], queue[qpos][2], now)
    /\ decks' = [decks EXCEPT ![queue[qpos][1] + 1] =
                    play_card(@, queue[qpos][2], correct, j, up, now)]
    /\ streak' = [streak EXCEPT ![<<queue[qpos][1] + 1, queue[qpos][2]>>] =
                      IF correct THEN @ + 1 ELSE 0]
    /\ qpos' = NextPos
    /\ UNCHANGED <<spc, queue, done, max_new, max_old, prandomize, report>>
    /\ UNCHANGED <<cardVars, mergeVars, now>>

\* lines 73-74, deck.rs 208-237: the card at qpos is due, is shown and answered
AnswerCard(correct, j, up) ==
    /\ spc \in {"old", "new"}
    /\ qpos >= 1
    /\ StillDue(decks[queue[qpos][1] + 1], queue[qpos][2], now)
    /\ done' = FALSE
    /\ decks' = [decks EXCEPT ![queue[qpos][1] + 1] =
                    play_card(@, queue[qpos][2], correct, j, up, now)]
    /\ streak' = [streak EXCEPT ![<<queue[qpos][1] + 1, queue[qpos][2]>>] =
                      IF correct THEN @ + 1 ELSE 0]
    /\ qpos' = NextPos
    /\ UNCHANGED <<spc, queue, max_new, max_old, prandomize, report>>
    /\ UNCHANGED <<cardVars, mergeVars, now>>

\* buggy variant: the quit is noticed only after the card's Status was
\* looked up (deck.rs 210), which creates the entry of a card that has none
QuitCardAfterEntry ==
    /\ spc \in {"old", "new"}
    /\ qpos >= 1
    /\ StillDue(decks[queue[qpos][1] + 1], queue[qpos][2], now)
    /\ done' = FALSE
    /\ decks' = [decks EXCEPT ![queue[qpos][1] + 1].status =
                    [k \in DOMAIN @ \cup {queue[qpos][2]} |->
                        IF k \in DOMAIN @ THEN @[k] ELSE StatusNew(k, now)]]
    /\ report' = Some(on_exit(decks'))
    /\ spc' = "cancelled"
    /\ UNCHANGED <<queue, qpos, max_new, max_old, prandomize, streak>>
    /\ UNCHANGED <<cardVars, mergeVars, now>>

\* lines 73-77, deck.rs 183-185: the user answers "q" at the reveal prompt:
\* play_card returns false, on_exit, exit(0)
QuitCard ==
    /\ spc \in {"old", "new"}
    /\ qpos >= 1
    /\ StillDue(decks[queue[qpos][1] + 1], queue[qpos][2], now)
    /\ done' = FALSE
    /\ report' = Some(on_exit(decks))
    /\ spc' = "cancelled"
    /\ UNCHANGED <<decks, queue, qpos, max_new, max_old, prandomize, streak>>
    /\ UNCHANGED <<cardVars, mergeVars, now>>

\* deck.rs 179 and 202: time passes while read_line waits for the user at
\* the card at qpos: the next day begins
SessNextDay ==
    /\ spc \in {"old", "new"}
    /\ qpos >= 1
    /\ StillDue(decks[queue[qpos][1] + 1], queue[qpos][2], now)
    /\ DateOf(now) < MaxDay
    /\ now' = now + DaySecs
    /\ UNCHANGED <<cardVars, mergeVars, sessVars>>

Next ==
    \/ StartOld
    \/ MergeNoShuffle
    \/ MergeShuffle
    \/ MergeSingle
    \/ MergeReverse
    \/ MergeWhile
    \/ MergeFor
    \/ BeginSweeps
    \/ SweepAgain
    \/ OldDone
    \/ NewDone
    \/ SkipCard
    \/ \E correct \in BOOLEAN, j \in JitSteps, up \in BOOLEAN : AnswerCard(correct, j, up)
    \/ QuitCard
    \/ SessNextDay

Spec == Init /\ [][Next]_vars

\* a session in which the user never quits and the lists are not shuffled
InitFair == Init /\ ~prandomize

NextFair ==
    \/ StartOld
    \/ MergeNoShuffle
    \/ MergeSingle
    \/ MergeReverse
    \/ MergeWhile
    \/ MergeFor
    \/ BeginSweeps
    \/ SweepAgain
    \/ OldDone
    \/ NewDone
    \/ SkipCard
    \/ \E correct \in BOOLEAN, j \in JitSteps, up \in BOOLEAN : AnswerCard(correct, j, up)
    \/ SessNextDay

\* in the new phase a card that was answered correctly k times in a row so
\* far is answered correctly
AnswerNewCorrectly(k) ==
    /\ \E j \in JitSteps, up \in BOOLEAN : AnswerCard(TRUE, j, up)
    /\ spc = "new"
    /\ streak[<<queue[qpos][1] + 1, queue[qpos][2]>>] = k

\* play runs on one thread that is never suspended for good, and read_line
\* returns: whenever the session has a next step it takes one.  The user
\* does not get new cards wrong for ever: when cards of the new queue keep
\* being shown, one is in the end answered correctly, and when cards keep
\* being shown after a correct answer, one is in the end answered correctly
\* again.  A card leaves the loop with its second correct answer in a row, so
\* this gives every card of the new queue its two correct answers in a row
SpecFair ==
    /\ InitFair
    /\ [][NextFair]_vars
    /\ WF_vars(NextFair)
    /\ \A k \in 0..(INIT_TICKS - 1) : SF_vars(AnswerNewCorrectly(k))

-----------------------------------------------------------------------------
(* Claims about Status::update, checked under SpecCard *)

Completed == last.op = "update" /\ last.ret = 0

\* C1: for a Status with factor = 0 and ticks >= 1, update(false, _) leaves
\* ticks at the reset constant 2 (reset, not decremented) and returns 2.
C1_NewMissResets ==
    (last.op = "update" /\ ~last.correct /\ pre.factor = 0 /\ pre.ticks >= 1)
        => (st.ticks = INIT_TICKS /\ last.ret = INIT_TICKS)

\* a new card with one tick left is answered wrongly: a decrement would give 0
C1_Witness ==
    /\ last.op = "update" /\ ~last.correct
    /\ pre.factor = 0 /\ pre.ticks = 1
    /\ st.ticks = INIT_TICKS

\* the answers of the calls so far, all made with randomize = false, the
\* first two on the fresh Status and each later one a cycle of a single tick
Answers == [i \in 1..Len(hist) |-> hist[i].correct]
NoRandom == \A i \in 1..Len(hist) : ~hist[i].randomize
SingleTicks == \A i \in 1..Len(hist) : hist[i].ret = (IF i = 1 THEN 1 ELSE 0)

\* C2: with randomize = false, a call that brings ticks to 0 sets factor to
\* max(1.0, 2f) after a correct answer and to max(1.0, f/2) after an
\* incorrect one; a fresh Status after two correct updates has factor 1.0
\* and ticks 0, and further single-tick cycles answered correct, correct,
\* incorrect give factors 2.0, 4.0, 2.0.
C2_FactorOfCompletedCycle ==
    /\ (Completed /\ ~last.randomize) =>
          IF last.correct
          THEN st.factor = Max(FUnit, 2 * pre.factor)
          ELSE IF pre.factor >= 2 * FUnit
               THEN 2 * st.factor = pre.factor
               ELSE st.factor = FUnit
    /\ (origin = "new" /\ NoRandom /\ SingleTicks) =>
          /\ Answers = <<TRUE, TRUE>> =>
                st.factor = FUnit /\ (last.op = "update" => st.ticks = 0)
          /\ Answers = <<TRUE, TRUE, TRUE>> => st.factor = 2 * FUnit
          /\ Answers = <<TRUE, TRUE, TRUE, TRUE>> => st.factor = 4 * FUnit
          /\ Answers = <<TRUE, TRUE, TRUE, TRUE, FALSE>> => st.factor = 2 * FUnit

\* the unit test's scenario has run to its end
C2_Witness ==
    /\ origin = "new" /\ NoRandom /\ SingleTicks
    /\ Answers = <<TRUE, TRUE, TRUE, TRUE, FALSE>>
    /\ Completed /\ pre.factor = 4 * FUnit /\ st.factor = 2 * FUnit

\* C3, as stated: the factor after a completing call (randomize = false) is
\* exactly 2x or 0.5x the factor before it.
C3_ExactlyDoubledOrHalved ==
    (Completed /\ ~last.randomize) =>
        (st.factor = 2 * pre.factor \/ 2 * st.factor = pre.factor)

\* C3, amended: the factor after a completing call (randomize = false) is
\* exactly 2x or 0.5x the factor before it, or it is 1.0 where the factor
\* before the call was below 2.0 (a new card, or a halving that would give
\* less than 1.0).
C3_DoubledHalvedOrFloor ==
    (Completed /\ ~last.randomize) =>
        \/ st.factor = 2 * pre.factor
        \/ 2 * st.factor = pre.factor
        \/ (st.factor = FUnit /\ pre.factor < 2 * FUnit)

\* a factor above 2.0 is halved exactly by an incorrect answer
C3_Witness ==
    /\ Completed /\ ~last.randomize /\ ~last.correct
    /\ pre.factor > 2 * FUnit /\ 2 * st.factor = pre.factor

\* prior factors strictly between 0 and 1.0 (only a hand-written log has them)
SubUnitFactors == {1, FUnit \div 2, FUnit - 1}

\* C4: after any update call that returns 0, for any prior factor >= 0, any
\* answer and either value of randomize, the factor is not below 1.0; hence
\* in every reachable state factor is 0 or >= 1.0.  The factor update
\* computes does not depend on the calls made before, so the prior factors
\* below 1.0 are tried on every Status before its first call.
C4_FactorFloor ==
    /\ Completed => st.factor >= FUnit
    /\ st.factor = 0 \/ st.factor >= FUnit
    /\ hist = <<>> =>
          \A f \in SubUnitFactors, c \in BOOLEAN, r \in BOOLEAN, j \in JitSteps :
              update([st EXCEPT !.factor = f, !.ticks = 1], c, r, j, now).factor >= FUnit

\* a randomized cycle completes on a miss whose halving the floor absorbs
C4_Witness ==
    /\ Completed /\ last.randomize /\ ~last.correct
    /\ pre.factor > 0 /\ pre.factor < 2 * FUnit
    /\ st.factor >= FUnit

\* C21: an update call that returns a non-zero ticks value leaves factor and
\* timestamp unchanged; factor and timestamp change only in the call in
\* which ticks reaches 0, and that call recomputes the interval (the factor
\* is set to at least 1.0 and at least a day is added to the timestamp);
\* update never changes the id.
C21_FrameOfUpdate ==
    last.op = "update" =>
        /\ st.id = pre.id
        /\ st.ticks = last.ret
        /\ last.ret # 0 => (st.factor = pre.factor /\ st.timestamp = pre.timestamp)
        /\ (st.factor # pre.factor \/ st.timestamp # pre.timestamp) => last.ret = 0
        /\ last.ret = 0 =>
              /\ pre.ticks = 1
              /\ st.factor >= FUnit
              /\ st.timestamp >= pre.timestamp + DaySecs

\* a Status read from the log with factor 0 and an overdue timestamp was
\* answered correctly once: a tick is left and nothing else has changed
C21_Witness ==
    /\ last.op = "update" /\ last.correct /\ last.ret = 1
    /\ origin = "log" /\ pre.factor = 0 /\ pre.ticks = INIT_TICKS
    /\ due_date(pre) < DateOf(now)
    /\ st.factor = pre.factor /\ st.timestamp = pre.timestamp

\* some update call so far has returned 0
CycleCompleted == \E i \in 1..Len(hist) : hist[i].ret = 0

\* C22: after any sequence of updates starting from a fresh Status (factor
\* 0, ticks 2), factor = 0 holds iff no update call has yet returned 0; once
\* a cycle has completed the card is never classified as new again (no call
\* and no reload takes a non-zero factor to 0).
C22_NewIffNoCycle ==
    /\ origin = "new" => (is_new(st) <=> ~CycleCompleted)
    /\ (last.op # "none" /\ ~is_new(pre)) => ~is_new(st)

\* a fresh Status completed a cycle and was then missed twice, a reload
\* between the cycles: the factor is back at the floor and not at 0
C22_Witness ==
    /\ origin = "new" /\ Len(hist) = 4
    /\ hist[2].ret = 0 /\ hist[3].ret = 0 /\ hist[4].ret = 0
    /\ ~hist[3].correct /\ ~hist[4].correct
    /\ st.factor = FUnit /\ ~is_new(st)

\* C23: after an update call that completes a cycle on a card that was due
\* (due date <= today), the card's new due date is strictly later than
\* today, so the card is not due again on the same day.
C23_DueAfterToday ==
    [][ (hist' # hist /\ last'.ret = 0 /\ due_date(st) <= DateOf(now))
            => due_date(st') > DateOf(now) ]_vars

\* C17: calling update on a state whose ticks is 0 is fatal for every
\* combination of factor and answer: the call never returns normally and
\* never leaves the state with a changed ticks value.
C17_ZeroTicksFatal ==
    (last.op \in {"update", "panic"} /\ pre.ticks = 0) =>
        (last.op = "panic" /\ st.ticks = pre.ticks)

-----------------------------------------------------------------------------
(* Claims about Suite::get_old_or_new, checked under SpecMerge *)

\* round k of the round robin over the first n lists: in deck-index order,
\* the k-th item of every list that has at least k items
RECURSIVE Round(_, _, _)
Round(qs, k, n) ==
    IF n = 0 THEN <<>>
    ELSE Round(qs, k, n - 1) \o (IF Len(qs[n]) >= k THEN <<<<n - 1, qs[n][k]>>>> ELSE <<>>)

\* rounds 1..k, one after the other
RECURSIVE Rounds(_, _)
Rounds(qs, k) == IF k = 0 THEN <<>> ELSE Rounds(qs, k - 1) \o Round(qs, k, Len(qs))

RoundRobin(qs) == Rounds(qs, MaxTotal + 1)

\* the items of deck d - 1 in a merged sequence, in their order there
RECURSIVE ItemsOf(_, _)
ItemsOf(r, d) ==
    IF r = <<>> THEN <<>>
    ELSE LET h == r[1]
         IN  (IF h[1] = d - 1 THEN <<h[2]>> ELSE <<>>) \o ItemsOf(Tail(r), d)

Total == SumLen(mshuf, mn)

\* C5: for two or more decks and no cap (randomize = false), the merge is the
\* round-robin interleaving: round k contributes, in deck-index order, the
\* k-th item of every deck that has at least k items; every input item
\* appears exactly once and each deck's relative order is preserved.
C5_RoundRobinUncapped ==
    (mpc = "done" /\ mn >= 2 /\ mmax = None /\ ~mrandomize) =>
        /\ mret = RoundRobin(minput)
        /\ Len(mret) = SumLen(minput, mn)
        /\ \A d \in 1..mn : ItemsOf(mret, d) = minput[d]

\* [a1,a2,a3] and [b1,b2] have been merged into [a1,b1,a2,b2,a3]
C5_Witness ==
    /\ mpc = "done" /\ mn = 2 /\ mmax = None /\ ~mrandomize
    /\ minput = << <<1, 2, 3>>, <<2, 1>> >>
    /\ mret = << <<0, 1>>, <<1, 2>>, <<0, 2>>, <<1, 1>>, <<0, 3>> >>

\* C6: for two or more decks and max = Some(m), the merge returns exactly
\* min(m, total) pairs, the prefix of that length of the uncapped
\* round-robin sequence.
C6_CappedPrefix ==
    (mpc = "done" /\ mn >= 2 /\ mmax # None) =>
        mret = SubSeq(RoundRobin(mshuf), 1, Min(mmax[1], Total))

\* C7: with max = Some(0) the merge yields an empty sequence, for one deck
\* or several and any lists.
C7_ZeroCapEmpty ==
    (mpc = "done" /\ mmax = Some(0)) => mret = <<>>

\* C8: with exactly one deck, max = Some(N) returns exactly min(N, len)
\* pairs (0, id), the first min(N, len) ids of the list in its given (or
\* shuffled) order; max = None returns the whole list in order.
C8_SingleDeckTake ==
    (mpc = "done" /\ mn = 1) =>
        /\ Len(mret) = (IF mmax = None THEN Len(mshuf[1])
                        ELSE Min(mmax[1], Len(mshuf[1])))
        /\ \A i \in 1..Len(mret) : mret[i] = <<0, mshuf[1][i]>>
        /\ ~mrandomize => mshuf = minput
        /\ mshuf[1] \in Shuffles(minput[1])

\* a single shuffled list longer than the cap has been cut to the cap
C8_Witness ==
    /\ mpc = "done" /\ mn = 1 /\ mrandomize
    /\ mmax = Some(2) /\ Len(minput[1]) = 3 /\ mshuf # minput
    /\ Len(mret) = 2

\* the number of items of deck d - 1 among the first p of the merged sequence
Taken(d, p) == Len(ItemsOf(SubSeq(mret, 1, p), d))

\* C18: for two or more decks and no cap, in every prefix of the merged
\* sequence the numbers of items taken from any two decks not yet exhausted
\* within that prefix differ by at most 1, and no deck has contributed a
\* second item before every other non-empty deck has contributed its first.
C18_RoundRobinFair ==
    (mn >= 2 /\ mmax = None /\ mpc = "done") =>
        \A p \in 0..Len(mret) : \A a, b \in 1..mn :
            /\ (Taken(a, p) < Len(mshuf[a]) /\ Taken(b, p) < Len(mshuf[b]))
                  => (Taken(a, p) - Taken(b, p) \in {-1, 0, 1})
            /\ (Taken(a, p) >= 2 /\ Len(mshuf[b]) >= 1) => Taken(b, p) >= 1

\* three decks of 3, 1 and 1 items have been merged without a cap: the first
\* deck gives its second item only after the other two gave their only one
C18_Witness ==
    /\ mpc = "done" /\ mn = 3 /\ mmax = None
    /\ minput = << <<1, 2, 3>>, <<1>>, <<1>> >>
    /\ mret = << <<0, 1>>, <<1, 1>>, <<2, 1>>, <<0, 2>>, <<0, 3>> >>

\* C19: get_old_or_new terminates for every input: any number of decks, any
\* list lengths (empty lists included) and any max (None, Some(0), or Some(m)
\* smaller than the total number of items).
C19_MergeTerminates == <>(mpc = "done")

-----------------------------------------------------------------------------
(* Claims about Deck::get_due, checked under Spec *)

\* the ids of a list
Ids(q) == {q[i] : i \in 1..Len(q)}

\* the cards of a deck that have a status with ticks > 0, a due date not
\* after today, a factor other than 0 and below the graduation ceiling
DueCards(deck) ==
    {id \in deck.cards :
        /\ id \in DOMAIN deck.status
        /\ deck.status[id].ticks > 0
        /\ DateOf(deck.status[id].timestamp) <= DateOf(now)
        /\ deck.status[id].factor # 0
        /\ deck.status[id].factor < 60 * FUnit}

\* C9: Deck::get_due returns exactly the card ids that have a status with
\* ticks > 0, due date <= today, factor # 0 and factor < 60; never a card at
\* or above the ceiling nor a card without a status, in any state reachable
\* during a session.
C9_DueExactly ==
    \A d \in 1..Len(decks) : \A keys \in KeyOrders(decks[d]) :
        LET r == get_due(decks[d], keys, now)
        IN  /\ Ids(r) = DueCards(decks[d])
            /\ Len(r) = Cardinality(DueCards(decks[d]))
            /\ \A i \in 1..Len(r) :
                  /\ r[i] \in DOMAIN decks[d].status
                  /\ decks[d].status[r[i]].factor < MAX_DAYS

\* a session is under way whose old queue was built from a deck's due card
\* while a card of that deck that was due and at the ceiling was left out
C9_Witness ==
    /\ spc = "old" /\ queue # <<>>
    /\ \E d \in 1..Len(decks) : \E id \in decks[d].cards :
          /\ id \in DOMAIN decks[d].status
          /\ is_due(decks[d].status[id], now)
          /\ decks[d].status[id].factor >= MAX_DAYS
          /\ \A i \in 1..Len(queue) : queue[i][1] = d - 1 /\ queue[i][2] # id

\* C10: the list Deck::get_due returns is ascending by due timestamp: for
\* positions i < j, status[result[i]].timestamp <= status[result[j]].timestamp.
C10_DueSorted ==
    \A d \in 1..Len(decks) : \A keys \in KeyOrders(decks[d]) :
        LET r == get_due(decks[d], keys, now)
        IN  \A i, k \in 1..Len(r) :
                i < k => decks[d].status[r[i]].timestamp <= decks[d].status[r[k]].timestamp

\* two due cards with different timestamps come out of the HashMap in the
\* other order and are put right by the sort
C10_Witness ==
    \E d \in 1..Len(decks) : \E keys \in KeyOrders(decks[d]) :
        LET r == get_due(decks[d], keys, now)
        IN  /\ Len(r) = 2
            /\ decks[d].status[r[1]].timestamp < decks[d].status[r[2]].timestamp
            /\ r # SelectSeq(keys, LAMBDA id : DuePred(decks[d], id, now))
            /\ spc = "old" /\ queue = << <<d - 1, r[1]>>, <<d - 1, r[2]>> >>

-----------------------------------------------------------------------------
(* Claims about Deck::get_new and the log, checked under Spec *)

\* the cards of a deck that have no status, or a status with factor 0
NewCards(deck) ==
    {id \in deck.cards : id \notin DOMAIN deck.status \/ deck.status[id].factor = 0}

\* C11: Deck::get_new returns exactly the non-header card ids that do not
\* have a non-new status (no status entry, or a status with factor 0), each
\* once, sorted strictly ascending by id.
C11_NewExactly ==
    \A d \in 1..Len(decks) : \A keys \in KeyOrders(decks[d]) :
        LET r == get_new(decks[d], keys)
        IN  /\ Ids(r) = NewCards(decks[d])
            /\ 0 \notin Ids(r)
            /\ Len(r) = Cardinality(NewCards(decks[d]))
            /\ \A i, k \in 1..Len(r) : i < k => r[i] < r[k]

\* the new queue is being built from a deck with a header, whose card 1 has
\* no status and whose card 2 has a status with factor 0, the HashMap giving
\* its keys in descending order
C11_Witness ==
    /\ spc = "merge_new"
    /\ \E d \in 1..Len(decks) :
          /\ decks[d].cards = {1, 2}
          /\ 1 \notin DOMAIN decks[d].status
          /\ 2 \in DOMAIN decks[d].status /\ decks[d].status[2].factor = 0
          /\ <<2, 1>> \in KeyOrders(decks[d])
          /\ get_new(decks[d], <<2, 1>>) = <<1, 2>>
          /\ minput[d] = <<1, 2>>

\* the status map as save_log writes it and read_from_file reads it back
RoundTrip(deck, up) == ReadLog(save_log(deck, up))

\* C12: writing a deck's status map with save_log and reloading it yields a
\* status map with identical (id, timestamp, factor) triples for every entry
\* of the original map, for every status map reachable in a session.
C12_RoundTripIdentical ==
    \A d \in 1..Len(decks) : \A up \in BOOLEAN :
        \A id \in DOMAIN decks[d].status :
            /\ id \in DOMAIN RoundTrip(decks[d], up)
            /\ RoundTrip(decks[d], up)[id].id = decks[d].status[id].id
            /\ RoundTrip(decks[d], up)[id].timestamp = decks[d].status[id].timestamp
            /\ RoundTrip(decks[d], up)[id].factor = decks[d].status[id].factor

-----------------------------------------------------------------------------
(* Claims about Suite::play and Deck::play_card, checked under Spec *)

\* the deck and the id of the card at the queue's position
DeckAt == queue[qpos][1] + 1
IdAt == queue[qpos][2]

\* C13: when the user quits at a card's reveal prompt, the card's status
\* (and whether it has one), the played and wrong tallies and the log are
\* unchanged, the scheduler is not invoked, the end-of-session report is
\* made at once, and no further card is presented: nothing follows.
C13_QuitFrame ==
    [][ /\ spc # "cancelled"
        /\ spc' = "cancelled" =>
              /\ decks' = decks
              /\ streak' = streak
              /\ queue' = queue /\ qpos' = qpos
              /\ report = None /\ report' = Some(on_exit(decks)) ]_vars

\* the user has quit at a card that has no status entry, and none was made
C13_Witness ==
    /\ spc = "cancelled"
    /\ report = Some(on_exit(decks))
    /\ IdAt \notin DOMAIN decks[DeckAt].status
    /\ \E c \in CardRefs(decks) : decks[c[1]].played # {}

\* C14: in play_card the log is saved and the card is added to the played
\* tally (and to the wrong tally iff the answer was incorrect) exactly when
\* update returns 0; an answer that leaves ticks > 0 causes no log write and
\* no change to played or wrong.
C14_SavedOnCompletionOnly ==
    [][ \A correct \in BOOLEAN, j \in JitSteps, up \in BOOLEAN :
          AnswerCard(correct, j, up) =>
            LET before == decks[DeckAt]
                after == decks'[DeckAt]
            IN  IF after.status[IdAt].ticks = 0
                THEN /\ after.played = before.played \cup {IdAt}
                     /\ after.wrong = (IF correct THEN before.wrong
                                       ELSE before.wrong \cup {IdAt})
                     /\ after.log = save_log(after, up)
                     /\ \E i \in 1..Len(after.log) :
                           after.log[i][1] = IdAt
                           /\ after.log[i][2] = after.status[IdAt].timestamp
                ELSE /\ after.played = before.played
                     /\ after.wrong = before.wrong
                     /\ after.log = before.log ]_vars

\* a card was missed on its last tick and is in both tallies and in the log
\* with its new timestamp, while another card, answered correctly once, has
\* a status with a tick left that is in no tally and not in the log
C14_Witness ==
    \E d \in 1..Len(decks) : \E a, b \in decks[d].cards :
        /\ a \in decks[d].wrong /\ a \in decks[d].played
        /\ decks[d].status[a].ticks = 0
        /\ \E i \in 1..Len(decks[d].log) :
              decks[d].log[i][1] = a /\ decks[d].log[i][2] = decks[d].status[a].timestamp
        /\ streak[<<d, b>>] = 1
        /\ b \in DOMAIN decks[d].status /\ decks[d].status[b].ticks = 1
        /\ b \notin decks[d].played
        /\ \A i \in 1..Len(decks[d].log) : decks[d].log[i][1] # b

\* a card of a deck that is new: it has no status, or one with factor 0
IsNewCard(deck, id) ==
    id \in DOMAIN deck.status => is_new(deck.status[id])

\* the ticks a card has left; a card without a status is given a fresh one
\* when it is first answered
TicksLeft(deck, id) ==
    IF id \in DOMAIN deck.status THEN deck.status[id].ticks ELSE INIT_TICKS

\* C15: a new card (factor 0) gets its first interval (factor non-zero,
\* ticks 0) only by the second of 2 correct answers in a row in this
\* session; an incorrect answer restarts the count; a new card is not in the
\* played tally before that.
C15_TwoInARow ==
    /\ [](\A c \in CardRefs(decks) :
            IsNewCard(decks[c[1]], c[2]) =>
                /\ c[2] \notin decks[c[1]].played
                /\ streak[c] < INIT_TICKS
                /\ TicksLeft(decks[c[1]], c[2]) = INIT_TICKS - streak[c])
    /\ [][ \A correct \in BOOLEAN, j \in JitSteps, up \in BOOLEAN :
            (AnswerCard(correct, j, up) /\ IsNewCard(decks[DeckAt], IdAt)) =>
                IF correct /\ streak[<<DeckAt, IdAt>>] = INIT_TICKS - 1
                THEN /\ decks'[DeckAt].status[IdAt].factor >= FUnit
                     /\ decks'[DeckAt].status[IdAt].ticks = 0
                     /\ IdAt \in decks'[DeckAt].played
                     /\ streak'[<<DeckAt, IdAt>>] = INIT_TICKS
                ELSE /\ IsNewCard(decks'[DeckAt], IdAt)
                     /\ IdAt \notin decks'[DeckAt].played
                     /\ ~correct => /\ streak'[<<DeckAt, IdAt>>] = 0
                                     /\ decks'[DeckAt].status[IdAt].ticks = INIT_TICKS
          ]_vars

\* a card that had no line in the log has been answered correctly twice in
\* a row in the new phase and has its first interval
C15_Witness ==
    /\ spc = "new"
    /\ \E c \in CardRefs(decks) :
          /\ streak[c] = INIT_TICKS
          /\ queue = << <<c[1] - 1, c[2]>> >>
          /\ decks[c[1]].status[c[2]].factor >= FUnit
          /\ decks[c[1]].status[c[2]].ticks = 0
          /\ decks[c[1]].played = {c[2]} /\ decks[c[1]].wrong = {}

\* no (deck, id) of the queue is still due
NoneStillDue ==
    \A i \in 1..Len(queue) : ~StillDue(decks[queue[i][1] + 1], queue[i][2], now)

\* a sweep over the queue has just ended, or none has begun
AtSweepEnd == spc \in {"old", "new"} /\ qpos = 0

\* the step takes play to the position p
Enters(p) == spc # p /\ spc' = p

\* C16: no new card is presented in the Reviewing-Old phase; that phase ends
\* exactly when a full sweep found no (deck, id) of the old queue still due,
\* and the session reaches Finished exactly when a full sweep found no id of
\* the new queue still due; Finished and Cancelled are terminal and each
\* produces the end-of-session report.
C16_PhaseOrder ==
    /\ []((spc = "old" /\ qpos >= 1 /\ StillDue(decks[DeckAt], IdAt, now))
            => ~IsNewCard(decks[DeckAt], IdAt))
    /\ []((AtSweepEnd /\ done) => NoneStillDue)
    /\ []((spc \in {"finished", "cancelled"}) <=> (report # None))
    /\ []((spc \in {"finished", "cancelled"}) => report = Some(on_exit(decks)))
    /\ [][ /\ spc \notin {"finished", "cancelled"}
           /\ Enters("merge_new") => (spc = "old" /\ AtSweepEnd /\ done /\ NoneStillDue)
           /\ Enters("new") => spc = "merge_new"
           /\ Enters("finished") => (spc = "new" /\ AtSweepEnd /\ done /\ NoneStillDue)
           /\ (AtSweepEnd /\ done) => spc' = (IF spc = "old" THEN "merge_new" ELSE "finished")
           /\ (AtSweepEnd /\ ~done) => (spc' = spc /\ done')
          ]_vars

\* the session has finished after an old card and then a new card of the
\* same deck were played
C16_Witness ==
    /\ spc = "finished"
    /\ report = Some(on_exit(decks))
    /\ \E d \in 1..Len(decks) : \E a, b \in decks[d].cards :
          /\ a # b /\ {a, b} \subseteq decks[d].played
          /\ streak[<<d, a>>] < INIT_TICKS /\ streak[<<d, b>>] = INIT_TICKS

\* play is about to call play_card on the card at the queue's position
Presenting ==
    spc \in {"old", "new"} /\ qpos >= 1 /\ StillDue(decks[DeckAt], IdAt, now)

\* C20: in every session run the session loop only invokes Status::update on
\* a status whose ticks is >= 1 (a missing status being created with ticks
\* 2): no call of update in a session overflows.
C20_UpdateHasTick ==
    Presenting =>
        /\ TicksLeft(decks[DeckAt], IdAt) >= 1
        /\ \A correct \in BOOLEAN :
              ~Overflows(IF IdAt \in DOMAIN decks[DeckAt].status
                         THEN decks[DeckAt].status[IdAt]
                         ELSE StatusNew(IdAt, now), correct)

\* a card is presented again with its last tick, while a card earlier in the
\* session has no tick left and is passed over by the live check
C20_Witness ==
    /\ Presenting
    /\ streak[<<DeckAt, IdAt>>] = 1
    /\ decks[DeckAt].status[IdAt].ticks = 1
    /\ \E c \in CardRefs(decks) :
          /\ c[2] \in DOMAIN decks[c[1]].status
          /\ decks[c[1]].status[c[2]].ticks = 0
          /\ due_date(decks[c[1]].status[c[2]]) <= DateOf(now)

\* the card c = <<deck_index + 1, id>> has completed a cycle in this session
Played(c) == c[2] \in decks[c[1]].played

\* C24: within one session every card completes at most one tick cycle: once
\* a card's ticks reaches 0 it is never presented again in that session, in
\* either phase, and its status is not changed again; every presentation of
\* a card of the old queue completes its cycle, whatever the answer, and
\* when the old phase ends every card of the old queue has been presented.
C24_OneCyclePerSession ==
    /\ [](Presenting => ~Played(<<DeckAt, IdAt>>))
    /\ [](\A c \in CardRefs(decks) :
            Played(c) => decks[c[1]].status[c[2]].ticks = 0)
    /\ [][ \A c \in CardRefs(decks) :
            Played(c) =>
                /\ c[2] \in decks'[c[1]].played
                /\ decks'[c[1]].status[c[2]] = decks[c[1]].status[c[2]] ]_vars
    /\ [][ \A correct \in BOOLEAN, j \in JitSteps, up \in BOOLEAN :
            (AnswerCard(correct, j, up) /\ spc = "old") =>
                /\ decks'[DeckAt].status[IdAt].ticks = 0
                /\ IdAt \in decks'[DeckAt].played ]_vars
    /\ [][ Enters("merge_new") =>
            \A i \in 1..Len(queue) : Played(<<queue[i][1] + 1, queue[i][2]>>) ]_vars

\* the old phase is at its end: both cards of the old queue were presented
\* once, one answered correctly and one not, and both have no tick left
C24_Witness ==
    /\ spc = "old" /\ AtSweepEnd /\ done
    /\ Len(queue) = 2
    /\ \A i \in 1..2 : Played(<<queue[i][1] + 1, queue[i][2]>>)
    /\ \E d \in 1..Len(decks) :
          Cardinality(decks[d].played) = 2 /\ Cardinality(decks[d].wrong) = 1

\* C25: a card that is new (factor 0, or no status) when it is presented is
\* not added to the wrong tally by the answer: only a card that has a status
\* with a factor other than 0 when it is answered is added to it, so no card
\* answered in the new phase is counted as wrong in the report.
C25_NewNeverWrong ==
    /\ [][ \A correct \in BOOLEAN, j \in JitSteps, up \in BOOLEAN :
            (AnswerCard(correct, j, up) /\ IsNewCard(decks[DeckAt], IdAt)) =>
                IdAt \notin decks'[DeckAt].wrong ]_vars
    /\ [][ \A d \in 1..Len(decks) :
            decks'[d].wrong # decks[d].wrong =>
                /\ Presenting /\ d = DeckAt /\ spc = "old"
                /\ decks'[d].wrong = decks[d].wrong \cup {IdAt}
                /\ IdAt \in DOMAIN decks[d].status
                /\ decks[d].status[IdAt].factor # 0 ]_vars
    /\ [](report # None =>
            \A d \in 1..Len(decks) : \A id \in report[1][d].wrong :
                /\ id \in decks[d].played
                /\ decks[d].status[id].factor >= FUnit
                /\ streak[<<d, id>>] = 0)

\* in the new phase a card that had no status has been answered incorrectly
\* after a correct answer: it has a status made in this session, both ticks
\* again, and is in no tally, while an old card is in the wrong tally
C25_Witness ==
    /\ spc = "new"
    /\ \E c \in CardRefs(decks) :
          /\ c[2] \in DOMAIN decks[c[1]].status
          /\ decks[c[1]].status[c[2]].timestamp \in NowValues
          /\ is_new(decks[c[1]].status[c[2]])
          /\ decks[c[1]].status[c[2]].ticks = INIT_TICKS
          /\ c[2] \notin decks[c[1]].played \cup decks[c[1]].wrong
          /\ decks[c[1]].wrong # {}

\* C26: if the user never quits and in the end gives every card of the new
\* queue two correct answers in a row, the session reaches Finished; the
\* old phase ends whatever the answers are.
C26_SessionFinishes ==
    /\ <>(spc = "finished")
    /\ (spc = "old") ~> (spc = "merge_new")

====
